---- MODULE Spec2Model ----
(***************************************************************************)
(* Model of linear_solvers/observables/matrix_functional.py:               *)
(* class MatrixFunctional (observable, observable_circuit,                 *)
(* post_processing, evaluate_classically) and the estimation workflow of   *)
(* its class docstring.                                                    *)
(*                                                                         *)
(* Conventions.                                                            *)
(*  - Python lists are sequences; a Python index k is position k+1.        *)
(*  - An Operator is the sequence of its single-qubit tensor factors,      *)
(*    most-significant factor first; a.tensor(b) is a \o b.                *)
(*  - A float is an exact rational <<p, q>> with q > 0 in lowest terms.    *)
(*  - A real vector is [num, den2]: entry k is num[k+1] / sqrt(den2), so   *)
(*    normalized vectors and Hadamard gates stay in integer arithmetic.    *)
(***************************************************************************)
EXTENDS Integers, Sequences, FiniteSets

(* ------------------------------ bounds -------------------------------- *)

\* largest num_qubits handed to the two builders
MaxQubits == 4
\* largest num_qubits of the estimation workflow (vectors of length 2^n)
MaxStateQubits == 2
\* post_processing gets lists of length 0 .. 2*MaxResultQubits+1
MaxResultQubits == 2
\* list elements handed to post_processing are 0 .. MaxValue
MaxValue == 1
\* scaling is 1 .. MaxScaling
MaxScaling == 2
\* vector entries are -MaxAmp .. MaxAmp
MaxAmp == 1
\* evaluate_classically gets arrays of length 1 .. MaxVecLen
MaxVecLen == 3
\* main_diag and off_diag are -1 .. MaxDiag
MaxDiag == 2

DiagValues == (0 - 1) .. MaxDiag

(* ----------------------------- rationals ------------------------------ *)

Abs(k) == IF k < 0 THEN 0 - k ELSE k

RECURSIVE GCD(_, _)
GCD(a, b) == IF b = 0 THEN a ELSE GCD(b, a % b)

\* p/q in lowest terms with a positive denominator
Rat(p, q) ==
    LET g == GCD(Abs(p), Abs(q))
        s == IF q < 0 THEN 0 - 1 ELSE 1
    IN  <<(s * p) \div g, (s * q) \div g>>

RInt(k) == <<k, 1>>
RAdd(a, b) == Rat(a[1] * b[2] + b[1] * a[2], a[2] * b[2])
RSub(a, b) == Rat(a[1] * b[2] - b[1] * a[2], a[2] * b[2])
RScale(k, a) == Rat(k * a[1], a[2])
RDivInt(a, k) == Rat(a[1], a[2] * k)

RECURSIVE Pow2(_)
Pow2(k) == IF k <= 0 THEN 1 ELSE 2 * Pow2(k - 1)

\* value returned by nothing: the call raised
NoValue == <<>>

(* --------------------------- program state ---------------------------- *)

VARIABLES
    main_diag,      \* self._main_diag
    off_diag,       \* self._off_diag
    op,             \* the method called on the object, "none" before any call
    num_qubits,     \* argument num_qubits of the call
    solution,       \* argument solution of the call
    scaling,        \* argument scaling of the call
    result          \* what the call returned or raised

vars == <<main_diag, off_diag, op, num_qubits, solution, scaling, result>>

(* ------------------------ MatrixFunctional.observable ----------------- *)

\* Operator.from_label("I"), zero_op = (I + Z) / 2, one_op = (I - Z) / 2
IdOp == <<"I">>
zero_op == <<"P0">>
one_op == <<"P1">>

\* for _ in range(k): acc = acc.tensor(factor)
RECURSIVE TensorLoop(_, _, _)
TensorLoop(acc, factor, k) ==
    IF k <= 0 THEN acc ELSE TensorLoop(acc \o factor, factor, k - 1)

norm_op(n) == TensorLoop(IdOp, IdOp, n - 1)

\* prefix_op = I; if j > 0: tensor j-1 more I onto it
prefix_op(j) == IF j > 0 THEN TensorLoop(IdOp, IdOp, j - 1) ELSE IdOp

suffix_op(i) == TensorLoop(one_op, one_op, i - 1)

\* the two operators appended in loop iteration i
ObservablePair(n, i) ==
    LET j == n - i - 1
    IN  IF i > 0
        THEN << prefix_op(j) \o zero_op \o suffix_op(i),
                prefix_op(j) \o one_op \o suffix_op(i) >>
        ELSE << prefix_op(j) \o zero_op, prefix_op(j) \o one_op >>

\* for i in range(num_qubits): observables += [zero_case, one_case]
RECURSIVE ObservableLoop(_, _, _)
ObservableLoop(n, i, observables) ==
    IF i >= n THEN observables
    ELSE ObservableLoop(n, i + 1, observables \o ObservablePair(n, i))

observable(n) == ObservableLoop(n, 0, <<norm_op(n)>>)

(* -------------------- MatrixFunctional.observable_circuit ------------- *)

QuantumCircuit(n) == [num_qubits |-> n, gates |-> <<>>]
cx(qc, c, t) == [qc EXCEPT !.gates = Append(@, [name |-> "cx", qubits |-> <<c, t>>])]
h(qc, q) == [qc EXCEPT !.gates = Append(@, [name |-> "h", qubits |-> <<q>>])]

\* for j in range(0, i): qc.cx(i, j)
RECURSIVE CxLoop(_, _, _)
CxLoop(qc, i, j) == IF j >= i THEN qc ELSE CxLoop(cx(qc, i, j), i, j + 1)

\* variant: the cx loop starts at j = 1
BasisChange_SkipsQubitZero(n, i) == h(CxLoop(QuantumCircuit(n), i, 1), i)

\* the circuit built in loop iteration i
BasisChange(n, i) == h(CxLoop(QuantumCircuit(n), i, 0), i)

\* for i in range(0, num_qubits): qcs += [qc, qc]
RECURSIVE CircuitLoop(_, _, _)
CircuitLoop(n, i, qcs) ==
    IF i >= n THEN qcs
    ELSE CircuitLoop(n, i + 1, qcs \o <<BasisChange(n, i), BasisChange(n, i)>>)

\* variant: qcs += [qc], one entry per qubit
observable_circuit_SinglePerQubit(n) ==
    LET RECURSIVE L(_, _)
        L(i, qcs) == IF i >= n THEN qcs ELSE L(i + 1, Append(qcs, BasisChange(n, i)))
    IN  L(0, <<QuantumCircuit(n)>>)

observable_circuit(n) == CircuitLoop(n, 0, <<QuantumCircuit(n)>>)

(* --------------------- MatrixFunctional.post_processing --------------- *)

\* a Python list argument, and arguments that are no list
ListOf(items) == [kind |-> "list", items |-> items]
FloatOf(r) == [kind |-> "float", items |-> <<r>>]
TupleOf(items) == [kind |-> "tuple", items |-> items]

\* isinstance(solution, list)
IsList(sol) == sol.kind = "list"

\* what a call hands back: the value of its return statement
Value(v) == [status |-> "ok", value |-> v]

Raised(error, reads) == [status |-> error, value |-> NoValue, reads |-> reads]
Returned(value, reads) == [status |-> "ok", value |-> value, reads |-> reads]

\* (solution[i] - solution[i + 1]) / (scaling**2)
\* variant: solution[i + 1] - solution[i]
PairTerm_OneMinusZero(items, i, s) == RDivInt(RSub(items[i + 2], items[i + 1]), s * s)

PairTerm(items, i, s) == RDivInt(RSub(items[i + 1], items[i + 2]), s * s)

\* for i in range(1, len(solution), 2): off_val += ...
\* reads lists the indices subscripted so far; an index outside
\* 0 .. len-1 raises IndexError at the subscription.
RECURSIVE PairLoop(_, _, _, _, _)
PairLoop(items, s, i, off_val, reads) ==
    IF i >= Len(items) THEN Returned(off_val, reads)
    ELSE IF i + 1 >= Len(items)
         THEN Raised("IndexError", reads \o <<i, i + 1>>)
         ELSE PairLoop(items, s, i + 2, RAdd(off_val, PairTerm(items, i, s)),
                       reads \o <<i, i + 1>>)

\* variant: without the isinstance test
post_processing_NoTypeCheck(sol, n, s, md, od) ==
    LET items == sol.items
        loop == PairLoop(items, s, 1, RInt(0), <<>>)
    IN  IF loop.status # "ok" THEN loop
        ELSE IF Len(items) = 0 THEN Raised("IndexError", loop.reads \o <<0>>)
        ELSE Returned(RAdd(RScale(md, RDivInt(items[1], s * s)), RScale(od, loop.value)),
                      loop.reads \o <<0>>)

\* md, od are self._main_diag, self._off_diag
post_processing(sol, n, s, md, od) ==
    IF ~IsList(sol) THEN Raised("ValueError", <<>>)
    ELSE LET items == sol.items
             loop == PairLoop(items, s, 1, RInt(0), <<>>)
         IN  IF loop.status # "ok" THEN loop
             ELSE IF Len(items) = 0 THEN Raised("IndexError", loop.reads \o <<0>>)
             ELSE LET main_val == RDivInt(items[1], s * s)
                  IN  Returned(RAdd(RScale(md, main_val), RScale(od, loop.value)),
                               loop.reads \o <<0>>)

(* ------------------ MatrixFunctional.evaluate_classically ------------- *)

\* a numpy array with entries num[k] / sqrt(den2)
ArrayOf(num, den2) == [kind |-> "ndarray", num |-> num, den2 |-> den2]
CircuitOf(qc) == [kind |-> "circuit", qc |-> qc]

\* bit q of basis index b
Bit(b, q) == (b \div Pow2(q)) % 2

\* one gate applied to the amplitudes st.num / sqrt(st.den2)
ApplyGate(st, g) ==
    IF g.name = "cx"
    THEN LET c == g.qubits[1]
             t == g.qubits[2]
         IN  [st EXCEPT !.num = [b1 \in 1 .. Len(st.num) |->
                 LET b == b1 - 1
                 IN  IF Bit(b, c) = 1
                     THEN st.num[(IF Bit(b, t) = 1 THEN b - Pow2(t) ELSE b + Pow2(t)) + 1]
                     ELSE st.num[b1]]]
    ELSE LET q == g.qubits[1]
         IN  [st EXCEPT !.den2 = 2 * @,
                        !.num = [b1 \in 1 .. Len(st.num) |->
                 LET b == b1 - 1
                 IN  IF Bit(b, q) = 0
                     THEN st.num[b1] + st.num[b + Pow2(q) + 1]
                     ELSE st.num[b - Pow2(q) + 1] - st.num[b1]]]

RECURSIVE ApplyGates(_, _, _)
ApplyGates(st, gates, k) ==
    IF k > Len(gates) THEN st ELSE ApplyGates(ApplyGate(st, gates[k]), gates, k + 1)

\* the circuit qc appended to a circuit that prepares st
Compose(st, qc) == ApplyGates(st, qc.gates, 1)

\* Statevector(qc).data: qc applied to |0...0>
Statevector(qc) ==
    Compose(ArrayOf([b1 \in 1 .. Pow2(qc.num_qubits) |-> IF b1 = 1 THEN 1 ELSE 0], 1), qc)

\* diags([off, main, off], [-1, 0, 1], shape=(m, m)).toarray()[r][c]
\* variant: diags([main, off], [0, 1])
diags_NoLowerDiagonal(md, od, r, c) ==
    IF r = c THEN md ELSE IF c - r = 1 THEN od ELSE 0

diags(md, od, r, c) ==
    IF r = c THEN md ELSE IF r - c = 1 \/ c - r = 1 THEN od ELSE 0

RECURSIVE SumTo(_, _)
SumTo(f, m) == IF m = 0 THEN 0 ELSE f[m] + SumTo(f, m - 1)

\* np.dot of two integer sequences of length m
Dot(u, v) == SumTo([k \in 1 .. Len(u) |-> u[k] * v[k]], Len(u))

\* np.dot(solution.transpose(), np.dot(matrix, solution))
evaluate_classically(sol, md, od) ==
    LET x == IF sol.kind = "circuit" THEN Statevector(sol.qc) ELSE sol
        m == Len(x.num)
        Ax == [r \in 1 .. m |-> Dot([c \in 1 .. m |-> diags(md, od, r, c)], x.num)]
    IN  Rat(Dot(x.num, Ax), x.den2)

(* ------------- the estimation workflow of the class docstring --------- *)

\* the factor of operator obs that acts on qubit q (factor 1 is the
\* most-significant qubit)
FactorAt(obs, q) == obs[Len(obs) - q]

\* whether basis state b lies in the support of the projector product obs
InSupport(obs, b) ==
    \A q \in 0 .. Len(obs) - 1 :
        \/ FactorAt(obs, q) = "I"
        \/ FactorAt(obs, q) = "P0" /\ Bit(b, q) = 0
        \/ FactorAt(obs, q) = "P1" /\ Bit(b, q) = 1

\* an operator on k qubits applies to a state of 2^k amplitudes only
Applicable(obs, st) == Pow2(Len(obs)) = Len(st.num)

\* (~StateFn(obs) @ StateFn(qc)).eval() for an applicable obs
Expectation(obs, st) ==
    Rat(SumTo([b1 \in 1 .. Len(st.num) |->
                  IF InSupport(obs, b1 - 1) THEN st.num[b1] * st.num[b1] ELSE 0],
              Len(st.num)),
        st.den2)

\* init_state = vector / np.linalg.norm(vector)
Normalize(vector) == ArrayOf(vector, Dot(vector, vector))

\* num_qubits = int(np.log2(len(vector)))
RECURSIVE Log2(_)
Log2(m) == IF m <= 1 THEN 0 ELSE 1 + Log2(m \div 2)

Estimation(vector, md, od) ==
    LET init_state == Normalize(vector)
        n == Log2(Len(vector))
        obs_circuits == observable_circuit(n)
        qcs == [k \in 1 .. Len(obs_circuits) |-> Compose(init_state, obs_circuits[k])]
        observable_ops == observable(n)
        bad == {k \in 1 .. Len(observable_ops) : ~Applicable(observable_ops[k], qcs[k])}
    IN  IF bad # {}
        THEN [status |-> "NotApplicable", value |-> NoValue, exact |-> NoValue,
              state_vecs |-> <<>>]
        ELSE LET state_vecs == [k \in 1 .. Len(observable_ops) |->
                                   Expectation(observable_ops[k], qcs[k])]
                 post == post_processing(ListOf(state_vecs), n, 1, md, od)
             IN  [status |-> post.status, value |-> post.value,
                  exact |-> evaluate_classically(init_state, md, od),
                  state_vecs |-> state_vecs]

(* ------------------------------- inputs ------------------------------- *)

NoArg == <<>>

QubitCounts == 0 .. MaxQubits

ResultItems == UNION { [1 .. len -> {RInt(v) : v \in 0 .. MaxValue}] :
                       len \in 0 .. 2 * MaxResultQubits + 1 }

ResultArgs == {ListOf(items) : items \in ResultItems}
                \cup {TupleOf(items) : items \in {l \in ResultItems : Len(l) = 3}}
                \cup {FloatOf(RInt(v)) : v \in 0 .. MaxValue}

Scalings == 1 .. MaxScaling

Amplitudes == (0 - MaxAmp) .. MaxAmp

Arrays == UNION { [1 .. m -> Amplitudes] : m \in 1 .. MaxVecLen }

Circuits == UNION { {observable_circuit(n)[k] : k \in 1 .. 2 * n + 1} :
                    n \in 1 .. MaxStateQubits }

StateVectors == UNION { {v \in [1 .. Pow2(n) -> Amplitudes] : Dot(v, v) > 0} :
                        n \in 1 .. MaxStateQubits }

(* ------------------------------ actions ------------------------------- *)

\* MatrixFunctional(main_diag, off_diag)
Init ==
    /\ main_diag \in DiagValues
    /\ off_diag \in DiagValues
    /\ op = "none"
    /\ num_qubits = 0
    /\ solution = NoArg
    /\ scaling = 1
    /\ result = NoArg

\* Each action is one call on the object; its arguments are drawn after
\* the guard, the calls keep no state and one behaviour makes one call.

CallObservable ==
    /\ op = "none"
    /\ \E n \in QubitCounts :
          /\ op' = "observable"
          /\ num_qubits' = n
          /\ result' = Value(observable(n))
    /\ UNCHANGED <<main_diag, off_diag, solution, scaling>>

CallObservableCircuit ==
    /\ op = "none"
    /\ \E n \in QubitCounts :
          /\ op' = "observable_circuit"
          /\ num_qubits' = n
          /\ result' = Value(observable_circuit(n))
    /\ UNCHANGED <<main_diag, off_diag, solution, scaling>>

CallPostProcessing ==
    /\ op = "none"
    /\ \E sol \in ResultArgs, n \in 1 .. MaxResultQubits, s \in Scalings :
          /\ op' = "post_processing"
          /\ solution' = sol
          /\ num_qubits' = n
          /\ scaling' = s
          /\ result' = post_processing(sol, n, s, main_diag, off_diag)
    /\ UNCHANGED <<main_diag, off_diag>>

\* evaluate_classically of a numpy array
CallEvaluateClassically ==
    /\ op = "none"
    /\ \E num \in Arrays :
          /\ op' = "evaluate_classically"
          /\ solution' = ArrayOf(num, 1)
          /\ result' = Value(evaluate_classically(ArrayOf(num, 1), main_diag, off_diag))
    /\ UNCHANGED <<main_diag, off_diag, num_qubits, scaling>>

\* evaluate_classically of a QuantumCircuit
CallEvaluateClassicallyOnCircuit ==
    /\ op = "none"
    /\ \E qc \in Circuits :
          /\ op' = "evaluate_classically"
          /\ solution' = CircuitOf(qc)
          /\ result' = Value(evaluate_classically(CircuitOf(qc), main_diag, off_diag))
    /\ UNCHANGED <<main_diag, off_diag, num_qubits, scaling>>

\* the workflow of the class docstring on one vector
RunEstimation ==
    /\ op = "none"
    /\ \E vector \in StateVectors :
          /\ op' = "estimation"
          /\ solution' = vector
          /\ num_qubits' = Log2(Len(vector))
          /\ result' = Estimation(vector, main_diag, off_diag)
    /\ UNCHANGED <<main_diag, off_diag, scaling>>

NextBuilders == CallObservable \/ CallObservableCircuit

NextPostProcessing == CallPostProcessing

NextClassical == CallEvaluateClassically \/ CallEvaluateClassicallyOnCircuit

NextEstimation == RunEstimation

Next == NextBuilders \/ NextPostProcessing \/ NextClassical \/ NextEstimation

Spec == Init /\ [][Next]_vars
SpecBuilders == Init /\ [][NextBuilders]_vars
SpecPostProcessing == Init /\ [][NextPostProcessing]_vars
SpecClassical == Init /\ [][NextClassical]_vars
SpecEstimation == Init /\ [][NextEstimation]_vars

(* ------------------------------- claims ------------------------------- *)

Builders == {"observable", "observable_circuit"}

\* k factors f, as a sequence
Factors(f, k) == [p \in 1 .. k |-> f]

\* the highest qubit on which operator obs is not the identity
ObservableQubit(obs) ==
    CHOOSE q \in 0 .. Len(obs) - 1 :
        /\ FactorAt(obs, q) # "I"
        /\ \A r \in q + 1 .. Len(obs) - 1 : FactorAt(obs, r) = "I"

\* the qubit the circuit rotates: the qubit of its Hadamard gate
CircuitQubit(qc) ==
    qc.gates[CHOOSE k \in 1 .. Len(qc.gates) : qc.gates[k].name = "h"].qubits[1]

\* C1: the estimation workflow succeeds for every normalized real vector of
\* length 2^n and post_processing of the exact expectation values equals
\* evaluate_classically of the vector; every observable is applicable to
\* the state its circuit produces.
C1_RoundTrip ==
    op = "estimation" => result.status = "ok" /\ result.value = result.exact

\* C2: for n in 1 .. MaxQubits both builders return 2n+1 entries; entry 0 is
\* the norm term (all-identity operator, empty circuit) and entries 2i+1,
\* 2i+2 of both lists act on qubit i.
C2_IndexAligned ==
    op \in Builders /\ num_qubits >= 1 =>
        /\ Len(result.value) = 2 * num_qubits + 1
        /\ \A i \in 0 .. num_qubits - 1 : \A k \in {2 * i + 1, 2 * i + 2} :
              IF op = "observable"
              THEN /\ result.value[1] = Factors("I", num_qubits)
                   /\ ObservableQubit(result.value[k + 1]) = i
              ELSE /\ result.value[1].gates = <<>>
                   /\ CircuitQubit(result.value[k + 1]) = i

C2_Witness ==
    /\ op = "observable_circuit"
    /\ num_qubits = 4
    /\ Len(result.value) = 9
    /\ CircuitQubit(result.value[9]) = 3

\* C3: entry 0 of observable_circuit(n) is a circuit on n qubits without
\* gates; entries 2i+1 and 2i+2 are equal and hold cx(i, j) for
\* j = 0 .. i-1 in increasing order and then h(i), and nothing else.
C3_CircuitContent ==
    op = "observable_circuit" /\ num_qubits >= 1 =>
        /\ result.value[1] = [num_qubits |-> num_qubits, gates |-> <<>>]
        /\ \A i \in 0 .. num_qubits - 1 :
              LET zero == result.value[2 * i + 2]
                  one == result.value[2 * i + 3]
              IN  /\ zero = one
                  /\ zero.num_qubits = num_qubits
                  /\ Len(zero.gates) = i + 1
                  /\ \A j \in 0 .. i - 1 :
                        zero.gates[j + 1] = [name |-> "cx", qubits |-> <<i, j>>]
                  /\ zero.gates[i + 1] = [name |-> "h", qubits |-> <<i>>]

C3_Witness ==
    /\ op = "observable_circuit"
    /\ num_qubits = 3
    /\ Len(result.value[7].gates) = 3
    /\ result.value[7].gates[2] = [name |-> "cx", qubits |-> <<2, 1>>]

\* sum over k in 0 .. n-1 of items[2k+1] - items[2k+2] (integer items)
RECURSIVE PairDifferences(_, _)
PairDifferences(items, n) ==
    IF n = 0 THEN 0
    ELSE items[2 * n][1] - items[2 * n + 1][1] + PairDifferences(items, n - 1)

\* C4: for a list of length 2n+1 and scaling s > 0 post_processing returns
\* main_diag * results[0] / s^2
\*   + off_diag * (sum of results[2k+1] - results[2k+2]) / s^2.
C4_Combination ==
    op = "post_processing" /\ IsList(solution)
        /\ Len(solution.items) = 2 * num_qubits + 1 =>
        /\ result.status = "ok"
        /\ result.value =
              Rat(main_diag * solution.items[1][1]
                    + off_diag * PairDifferences(solution.items, num_qubits),
                  scaling * scaling)

C4_Witness ==
    /\ op = "post_processing" /\ IsList(solution)
    /\ num_qubits = 2 /\ Len(solution.items) = 5 /\ scaling = 2
    /\ main_diag = 2 /\ off_diag = 1
    /\ solution.items = <<RInt(1), RInt(1), RInt(0), RInt(0), RInt(1)>>
    /\ result = Returned(<<1, 2>>, <<1, 2, 3, 4, 0>>)

\* C5: post_processing raises ValueError for an argument that is no
\* sequence (a float) before it reads any element and returns nothing; a
\* list never raises ValueError.
C5_InputFormat ==
    op = "post_processing" =>
        /\ solution.kind = "float" => result = Raised("ValueError", <<>>)
        /\ solution.kind = "list" => result.status # "ValueError"

C5_Witness ==
    /\ op = "post_processing"
    /\ solution = FloatOf(RInt(1))
    /\ result.status = "ValueError"

\* sum over a in 1 .. m of x[a] * x[a + shift]
RECURSIVE Correlation(_, _, _)
Correlation(x, shift, m) ==
    IF m = 0 THEN 0 ELSE x[m] * x[m + shift] + Correlation(x, shift, m - 1)

\* C6: for a real vector x of length m >= 1 evaluate_classically returns
\* main_diag * sum x[a]^2 + 2 * off_diag * sum x[a] * x[a+1]; for x = [1, 1],
\* main_diag = 2, off_diag = 1 that is 6.
C6_BilinearForm ==
    op = "evaluate_classically" /\ solution.kind = "ndarray" =>
        /\ result = Value(RInt(main_diag * Correlation(solution.num, 0, Len(solution.num))
                       + 2 * off_diag * Correlation(solution.num, 1, Len(solution.num) - 1)))
        /\ solution.num = <<1, 1>> /\ main_diag = 2 /\ off_diag = 1
              => result.value = RInt(6)

C6_Witness ==
    /\ op = "evaluate_classically"
    /\ solution = ArrayOf(<<1, 1>>, 1)
    /\ main_diag = 2 /\ off_diag = 1
    /\ result.value = RInt(6)

\* C7: both builders reject num_qubits < 1 with an error and return no list.
C7_RejectsNoQubits ==
    op \in Builders /\ num_qubits < 1 =>
        result.status # "ok" /\ result.value = NoValue

\* C8: post_processing of a list whose length is not 2n+1 fails and returns
\* no value; it returns a value only when the length is 2n+1.
C8_LengthChecked ==
    op = "post_processing" /\ IsList(solution)
        /\ Len(solution.items) # 2 * num_qubits + 1 =>
        result.status # "ok" /\ result.value = NoValue

\* C9: with j = n-i-1, entries 2i+1 and 2i+2 of observable(n) are j Identity
\* factors, then ProjectorZero respectively ProjectorOne, then i
\* ProjectorOne factors; every entry has exactly n factors.
C9_TensorFactors ==
    op = "observable" /\ num_qubits >= 1 =>
        /\ \A i \in 0 .. num_qubits - 1 :
              LET j == num_qubits - i - 1
              IN  /\ result.value[2 * i + 2] = Factors("I", j) \o <<"P0">> \o Factors("P1", i)
                  /\ result.value[2 * i + 3] = Factors("I", j) \o <<"P1">> \o Factors("P1", i)
        /\ \A k \in 1 .. Len(result.value) : Len(result.value[k]) = num_qubits

\* C10: every index post_processing subscripts a list with is in
\* 0 .. len-1, whatever the length of the list.
C10_ReadsInRange ==
    op = "post_processing" /\ IsList(solution) =>
        \A k \in 1 .. Len(result.reads) :
            0 <= result.reads[k] /\ result.reads[k] < Len(solution.items)

====
